---- MODULE Spec2Model ----
(***************************************************************************)
(* Model of docs/app.js of the options tracker page: the two startup      *)
(* init() runs with their concurrent fetches, the in-memory row sets, the *)
(* series derivations, the header stats and the filter transitions.       *)
(*                                                                         *)
(* Conventions of the model                                                *)
(*   - a JS number is a tuple: <<n>> for the finite number n, <<>> for NaN *)
(*   - a date string is the number yyyymmdd of its ISO form; lexical order *)
(*     of fixed-width ISO dates is the numeric order of these numbers      *)
(*   - percentages are kept in hundredths of a percent (two decimals, as   *)
(*     toFixed(2) displays them), rounded down                             *)
(*   - a text is held as the sequence of its lines, each line as the       *)
(*     sequence of its comma-separated cells; line 1 is the header         *)
(***************************************************************************)
EXTENDS Integers, Sequences, FiniteSets, TLC

VARIABLES
    portfolioLog,   \* docs/data/portfolio.csv as served (fixed for the session)
    historyLog,     \* docs/data/history.csv as served (fixed for the session)
    portfolioChart, \* the Chart instance: NoChart or what it shows
    portfolioRows,  \* rows from portfolio.csv
    historyRows,    \* rows from history.csv
    currentFilter,  \* underlying or NoFilter
    headerStats,    \* text and classes of the three header stat elements
    badge,          \* text of #chart-filter-label
    lastRunEl,      \* text of #last-run
    tableRows,      \* the <tr> rows of #positions-table tbody (each has a click listener)
    resetListener,  \* dblclick listeners on the table and the canvas are attached
    pc,             \* position of each init() run
    loaders,        \* per init() run: state of loadLastRun, loadStats, loadHistory
    fetches,        \* per init() run: number of fetches it has issued for each log
    assigns,        \* per init() run: number of assignments it has made to each row set
    lastCall        \* the last filter transition that ran (with its argument)

vars == <<portfolioLog, historyLog, portfolioChart, portfolioRows, historyRows,
          currentFilter, headerStats, badge, lastRunEl, tableRows, resetListener,
          pc, loaders, fetches, assigns, lastCall>>

(***************************************************************************)
(* Bounds                                                                  *)
(***************************************************************************)
MaxHist == 2   \* data lines of a history.csv drawn for the derivation checks
MaxPort == 2   \* data lines of a portfolio.csv drawn for the derivation checks

(***************************************************************************)
(* JS numbers                                                              *)
(***************************************************************************)
NaN == <<>>
Num(n) == <<n>>
isFinite(x) == x # NaN
Add(a, b) == IF isFinite(a) /\ isFinite(b) THEN Num(a[1] + b[1]) ELSE NaN
Sub(a, b) == IF isFinite(a) /\ isFinite(b) THEN Num(a[1] - b[1]) ELSE NaN
Mul(a, b) == IF isFinite(a) /\ isFinite(b) THEN Num(a[1] * b[1]) ELSE NaN
\* comparisons with NaN are false
Gt0(x) == isFinite(x) /\ x[1] > 0
Ge0(x) == isFinite(x) /\ x[1] >= 0
Lt0(x) == isFinite(x) /\ x[1] < 0
\* (p / c) * 100, for c > 0, in hundredths of a percent
PctDiv(p, c) == IF isFinite(p) THEN Num((p[1] * 10000) \div c[1]) ELSE NaN

Undefined == "undefined"

\* parseFloat / parseInt(s, 10) on the cell strings the logs of the model use
parseFloat(s) ==
    CASE s = "1000" -> Num(1000)
      [] s = "500"  -> Num(500)
      [] s = "1100" -> Num(1100)
      [] s = "200"  -> Num(200)
      [] s = "-100" -> Num(-100)
      [] s = "-50"  -> Num(-50)
      [] s = "5"    -> Num(5)
      [] s = "2"    -> Num(2)
      [] s = "1"    -> Num(1)
      [] s = "0"    -> Num(0)
      [] OTHER      -> NaN

parseInt(s) == parseFloat(s)

(***************************************************************************)
(* utils                                                                   *)
(***************************************************************************)
Range(s) == {s[i] : i \in DOMAIN s}
Last(s) == s[Len(s)]

\* the column a header name is read from: forEach assigns in order, the last wins
ColumnOf(headers, h) == CHOOSE i \in DOMAIN headers :
    headers[i] = h /\ \A j \in DOMAIN headers : headers[j] = h => j <= i

parseCSV(text) ==
    IF Len(text) <= 1 THEN <<>>
    ELSE LET headers == text[1]
             obj(cols) == [h \in Range(headers) |->
                             IF ColumnOf(headers, h) <= Len(cols)
                             THEN cols[ColumnOf(headers, h)] ELSE Undefined]
         IN  [i \in 1..(Len(text) - 1) |-> obj(text[i + 1])]

Dash == [kind |-> "dash", n |-> 0]

fmtUsd(num) == IF ~isFinite(num) THEN Dash ELSE [kind |-> "usd", n |-> num[1]]

\* insertion of x into the ascending sequence s, after the elements that do not
\* compare greater (the sort is stable)
RECURSIVE InsertByDate(_, _)
InsertByDate(s, x) ==
    IF s = <<>> THEN <<x>>
    ELSE IF Last(s).date <= x.date THEN Append(s, x)
         ELSE Append(InsertByDate(SubSeq(s, 1, Len(s) - 1), x), Last(s))

RECURSIVE SortPrefix(_, _)
SortPrefix(rows, n) ==
    IF n = 0 THEN <<>> ELSE InsertByDate(SortPrefix(rows, n - 1), rows[n])

\* rows.sort(byDateAsc)
sortByDateAsc(rows) == SortPrefix(rows, Len(rows))

\* Array.from(keys).sort() of date strings
RECURSIVE SortDates(_)
SortDates(S) ==
    IF S = {} THEN <<>>
    ELSE LET m == CHOOSE x \in S : \A y \in S : x <= y
         IN  <<m>> \o SortDates(S \ {m})

(***************************************************************************)
(* header stats (overall vs filtered)                                      *)
(***************************************************************************)
NoFilter == "null"

\* what the page's markup shows before any script has written a stat
InitialHeaderStats ==
    [value |-> [kind |-> "html", n |-> 0], pnl |-> [kind |-> "html", n |-> 0],
     pnlClass |-> "", pct |-> [kind |-> "html", n |-> 0], pctClass |-> ""]

goodBad(x) == IF Ge0(x) THEN "good" ELSE IF Lt0(x) THEN "bad" ELSE ""

setHeaderStats(totalValue, totalPnl, totalPct) ==
    [value    |-> fmtUsd(totalValue),
     pnl      |-> fmtUsd(totalPnl),
     pnlClass |-> goodBad(totalPnl),
     pct      |-> IF isFinite(totalPct) THEN [kind |-> "pct", n |-> totalPct[1]] ELSE Dash,
     pctClass |-> goodBad(totalPct)]

\* the header stats after updateHeaderStatsOverall(), shown hs before
updateHeaderStatsOverall(hs, pRows) ==
    IF Len(pRows) = 0 THEN hs
    ELSE LET rows       == sortByDateAsc(pRows)
             latest     == Last(rows)
             totalValue == parseFloat(latest.total_value)
             totalCost  == parseFloat(latest.total_cost_basis)
             totalPnl   == parseFloat(latest.total_pnl)
             totalPct   == IF Gt0(totalCost) THEN PctDiv(totalPnl, totalCost) ELSE Num(0)
         IN  setHeaderStats(totalValue, totalPnl, totalPct)

\* cost basis of one position row as both aggregations compute it
rowCost(r) ==
    LET cpc  == parseFloat(r.cost_per_contract)
        cons == parseInt(r.contracts)
    IN  IF isFinite(cpc) /\ isFinite(cons) THEN Mul(Mul(cpc, cons), Num(100)) ELSE Num(0)

rowValue(r) ==
    LET value == parseFloat(r.value) IN IF isFinite(value) THEN value ELSE Num(0)

\* the for-loop of updateHeaderStatsUnderlying over the first n rows of todays
RECURSIVE TodaysTotals(_, _)
TodaysTotals(todays, n) ==
    IF n = 0 THEN [totalValue |-> Num(0), totalCost |-> Num(0)]
    ELSE LET acc == TodaysTotals(todays, n - 1)
         IN  [totalValue |-> Add(acc.totalValue, rowValue(todays[n])),
              totalCost  |-> Add(acc.totalCost, rowCost(todays[n]))]

\* updateHeaderStatsUnderlying with totals that carry over from the stats on display
updateHeaderStatsUnderlying_Accumulate(hs, hRows, underlying) ==
    IF Len(hRows) = 0 THEN hs
    ELSE LET dates      == SortDates({hRows[i].date : i \in DOMAIN hRows})
             latestDate == Last(dates)
             todays     == SelectSeq(hRows, LAMBDA r :
                               r.date = latestDate /\ r.underlying = underlying)
             tot        == TodaysTotals(todays, Len(todays))
             carried    == IF hs.value.kind = "usd" THEN Num(hs.value.n) ELSE Num(0)
             totalValue == Add(carried, tot.totalValue)
             totalPnl   == Sub(totalValue, tot.totalCost)
             totalPct   == IF Gt0(tot.totalCost) THEN PctDiv(totalPnl, tot.totalCost)
                           ELSE Num(0)
         IN  setHeaderStats(totalValue, totalPnl, totalPct)

\* the header stats after updateHeaderStatsUnderlying(underlying), shown hs before
updateHeaderStatsUnderlying(hs, hRows, underlying) ==
    IF Len(hRows) = 0 THEN hs
    ELSE LET dates      == SortDates({hRows[i].date : i \in DOMAIN hRows})
             latestDate == Last(dates)
             todays     == SelectSeq(hRows, LAMBDA r :
                               r.date = latestDate /\ r.underlying = underlying)
             tot        == TodaysTotals(todays, Len(todays))
             totalPnl   == Sub(tot.totalValue, tot.totalCost)
             totalPct   == IF Gt0(tot.totalCost) THEN PctDiv(totalPnl, tot.totalCost)
                           ELSE Num(0)
         IN  setHeaderStats(tot.totalValue, totalPnl, totalPct)

\* if (currentFilter): null and the empty string are falsy
updateHeaderStatsByFilter(hs, pRows, hRows, filter) ==
    IF filter # NoFilter /\ filter # ""
    THEN updateHeaderStatsUnderlying(hs, hRows, filter)
    ELSE updateHeaderStatsOverall(hs, pRows)

(***************************************************************************)
(* chart series                                                            *)
(***************************************************************************)
EmptySeries == [labels |-> <<>>, value |-> <<>>, pnl |-> <<>>, pct |-> <<>>]

\* computeSeriesAll with the zero guard written as c != 0
computeSeriesAll_NonZeroGuard(pRows) ==
    IF Len(pRows) = 0 THEN EmptySeries
    ELSE LET rows == sortByDateAsc(pRows)
             pctOf(r) == LET c == parseFloat(r.total_cost_basis)
                             p == parseFloat(r.total_pnl)
                         IN  IF isFinite(c) /\ c[1] # 0 THEN PctDiv(p, c) ELSE Num(0)
         IN  [labels |-> [i \in DOMAIN rows |-> rows[i].date],
              value  |-> [i \in DOMAIN rows |-> parseFloat(rows[i].total_value)],
              pnl    |-> [i \in DOMAIN rows |-> parseFloat(rows[i].total_pnl)],
              pct    |-> [i \in DOMAIN rows |-> pctOf(rows[i])]]

computeSeriesAll(pRows) ==
    IF Len(pRows) = 0 THEN EmptySeries
    ELSE LET rows == sortByDateAsc(pRows)
             pctOf(r) == LET c == parseFloat(r.total_cost_basis)
                             p == parseFloat(r.total_pnl)
                         IN  IF Gt0(c) THEN PctDiv(p, c) ELSE Num(0)
         IN  [labels |-> [i \in DOMAIN rows |-> rows[i].date],
              value  |-> [i \in DOMAIN rows |-> parseFloat(rows[i].total_value)],
              pnl    |-> [i \in DOMAIN rows |-> parseFloat(rows[i].total_pnl)],
              pct    |-> [i \in DOMAIN rows |-> pctOf(rows[i])]]

\* the grouping loop with map.set(d, {value, cost}) of the row alone: the last row wins
RECURSIVE GroupByDate_LastWins(_, _, _)
GroupByDate_LastWins(hRows, underlying, n) ==
    IF n = 0 THEN << >>
    ELSE LET map == GroupByDate_LastWins(hRows, underlying, n - 1)
             r   == hRows[n]
         IN  IF r.underlying # underlying THEN map
             ELSE LET d   == r.date
                      upd == [value |-> rowValue(r), cost |-> rowCost(r)]
                  IN  [k \in DOMAIN map \cup {d} |-> IF k = d THEN upd ELSE map[k]]

\* the Map (date -> {value, cost}) after the loop has visited the first n rows
RECURSIVE GroupByDate(_, _, _)
GroupByDate(hRows, underlying, n) ==
    IF n = 0 THEN << >>
    ELSE LET map == GroupByDate(hRows, underlying, n - 1)
             r   == hRows[n]
         IN  IF r.underlying # underlying THEN map
             ELSE LET d     == r.date
                      entry == IF d \in DOMAIN map THEN map[d]
                               ELSE [value |-> Num(0), cost |-> Num(0)]
                      upd   == [value |-> Add(entry.value, rowValue(r)),
                                cost  |-> Add(entry.cost, rowCost(r))]
                  IN  [k \in DOMAIN map \cup {d} |-> IF k = d THEN upd ELSE map[k]]

computeSeriesUnderlying(hRows, underlying) ==
    IF Len(hRows) = 0 THEN EmptySeries
    ELSE LET map    == GroupByDate(hRows, underlying, Len(hRows))
             labels == SortDates(DOMAIN map)
             value  == [i \in DOMAIN labels |-> map[labels[i]].value]
             cost   == [i \in DOMAIN labels |-> map[labels[i]].cost]
             pnl    == [i \in DOMAIN labels |-> Sub(value[i], cost[i])]
             pct    == [i \in DOMAIN labels |->
                           IF Gt0(cost[i]) THEN PctDiv(pnl[i], cost[i]) ELSE Num(0)]
         IN  [labels |-> labels, value |-> value, pnl |-> pnl, pct |-> pct]

(***************************************************************************)
(* chart                                                                   *)
(***************************************************************************)
NoChart == [label |-> "none", series |-> EmptySeries, suggestedMin |-> 0, suggestedMax |-> 0]

MinOf(S) == CHOOSE x \in S : \A y \in S : x <= y
MaxOf(S) == CHOOSE x \in S : \A y \in S : x >= y

\* bounds of the percent axis, in hundredths of a percent
percentAxisBounds(pcts) ==
    LET finite == {pcts[i][1] : i \in {j \in DOMAIN pcts : isFinite(pcts[j])}}
    IN  IF finite = {} THEN [suggestedMin |-> -10 * 100, suggestedMax |-> 10 * 100]
        ELSE [suggestedMin |-> MinOf(finite \cup {0}),
              suggestedMax |-> MaxOf(finite \cup {0})]

\* what the chart shows after renderOrUpdateChart(series, labelPrefix); a new Chart
\* and an updated one show the same
renderOrUpdateChart(series, labelPrefix) ==
    LET yPctBounds == percentAxisBounds(series.pct)
    IN  [label |-> labelPrefix, series |-> series,
         suggestedMin |-> yPctBounds.suggestedMin,
         suggestedMax |-> yPctBounds.suggestedMax]

(***************************************************************************)
(* The served logs                                                         *)
(***************************************************************************)
Underlyings == {"AAPL", "MSFT"}
Dates == {20250101, 20250102, 20250103}

PortfolioHeader == <<"date", "total_value", "total_cost_basis", "total_pnl">>
HistoryHeader == <<"date", "underlying", "symbolKey", "contracts", "cost_per_contract",
                   "price", "value", "pnl", "pnl_pct">>

\* value, cost_per_contract and contracts cells of a position line
Profiles == {<<"1000", "5", "2">>, <<"500", "5", "1">>, <<"x", "5", "1">>,
             <<"1000", "x", "2">>, <<"200", "1", "1">>}

HistoryLine(d, u, p) == <<d, u, <<u, "C200">>, p[3], p[2], "5", p[1], "0", "0">>
HistoryLines == {HistoryLine(d, u, p) : d \in {20250101, 20250102}, u \in Underlyings,
                                         p \in Profiles}

PortfolioLine(d, c, p) == <<d, "1000", c, p>>
PortfolioLines == {PortfolioLine(d, c, p) : d \in Dates, c \in {"1100", "0", "-50", "x"},
                                             p \in {"-100", "200"}}

SeqsUpTo(S, n) == UNION {[1..k -> S] : k \in 0..n}

\* an absent artifact or a non-OK response reads as the empty text
EmptyText == <<>>

HistoryTexts == {EmptyText} \cup {<<HistoryHeader>> \o ls : ls \in SeqsUpTo(HistoryLines, MaxHist)}
PortfolioTexts == {EmptyText} \cup {<<PortfolioHeader>> \o ls : ls \in SeqsUpTo(PortfolioLines, MaxPort)}

\* the logs the startup is explored with
StartupHistoryTexts ==
    {EmptyText,
     <<HistoryHeader, HistoryLine(20250102, "AAPL", <<"1000", "5", "1">>),
                      HistoryLine(20250101, "MSFT", <<"500", "5", "2">>)>>}
StartupPortfolioTexts ==
    {EmptyText,
     <<PortfolioHeader, PortfolioLine(20250102, "1100", "-100"),
                        PortfolioLine(20250101, "1100", "200")>>}

(***************************************************************************)
(* filtering                                                               *)
(***************************************************************************)
View == [currentFilter |-> currentFilter, portfolioChart |-> portfolioChart,
         headerStats |-> headerStats, badge |-> badge]

\* the view applyFilter(underlying) leaves, called on view v
applyFilter(v, underlying) ==
    [currentFilter  |-> underlying,
     portfolioChart |-> renderOrUpdateChart(computeSeriesUnderlying(historyRows, underlying),
                                            underlying),
     headerStats    |-> updateHeaderStatsByFilter(v.headerStats, portfolioRows, historyRows,
                                                  underlying),
     badge          |-> underlying]

\* the view resetFilter() leaves, called on view v
resetFilter(v) ==
    [currentFilter  |-> NoFilter,
     portfolioChart |-> renderOrUpdateChart(computeSeriesAll(portfolioRows), "Total"),
     headerStats    |-> updateHeaderStatsByFilter(v.headerStats, portfolioRows, historyRows,
                                                  NoFilter),
     badge          |-> ""]

SetView(v) ==
    /\ currentFilter' = v.currentFilter
    /\ portfolioChart' = v.portfolioChart
    /\ headerStats' = v.headerStats
    /\ badge' = v.badge

NoCall == [op |-> "none", arg |-> ""]

\* a call of applyFilter(underlying)
ApplyFilter(underlying) ==
    /\ SetView(applyFilter(View, underlying))
    /\ lastCall' = [op |-> "applyFilter", arg |-> underlying]
    /\ UNCHANGED <<portfolioLog, historyLog, portfolioRows, historyRows, lastRunEl,
                   tableRows, resetListener, pc, loaders, fetches, assigns>>

\* a call of resetFilter()
ResetFilter ==
    /\ SetView(resetFilter(View))
    /\ lastCall' = [op |-> "resetFilter", arg |-> ""]
    /\ UNCHANGED <<portfolioLog, historyLog, portfolioRows, historyRows, lastRunEl,
                   tableRows, resetListener, pc, loaders, fetches, assigns>>

(***************************************************************************)
(* loaders and init                                                        *)
(***************************************************************************)
Inits == {1, 2}   \* the script calls init() twice
Outcomes == {"ok", "notok", "reject"}

\* fetchText: the text of an OK response, "" of a non-OK one
fetchText(outcome, served) == IF outcome = "ok" THEN served ELSE EmptyText

\* tasks run only when no continuation of an init() is queued as a microtask
TaskReady == \A i \in Inits : pc[i] # "resume"

\* loader l of run i has settled as st; Promise.all rejects on the first rejection
\* and resolves when all three have resolved
Settle(i, l, st) ==
    LET ld == [loaders[i] EXCEPT ![l] = st]
    IN  /\ loaders' = [loaders EXCEPT ![i] = ld]
        /\ pc' = [pc EXCEPT ![i] =
                    IF pc[i] # "join" THEN pc[i]
                    ELSE IF st = "rejected" THEN "failed"
                    ELSE IF \A k \in DOMAIN ld : ld[k] = "done" THEN "resume"
                    ELSE "join"]

LoadLastRun(i, o) ==
    /\ TaskReady
    /\ loaders[i].lastRun = "pending"
    /\ IF o = "reject"
       THEN Settle(i, "lastRun", "rejected") /\ UNCHANGED lastRunEl
       ELSE /\ lastRunEl' = IF o = "ok" THEN "Last update: <date>"
                            ELSE "Last update: (not yet recorded)"
            /\ Settle(i, "lastRun", "done")
    /\ UNCHANGED <<portfolioLog, historyLog, portfolioChart, portfolioRows, historyRows,
                   currentFilter, headerStats, badge, tableRows, resetListener,
                   fetches, assigns, lastCall>>

LoadStats(i, o) ==
    /\ TaskReady
    /\ loaders[i].stats = "pending"
    /\ IF o = "reject"
       THEN Settle(i, "stats", "rejected") /\ UNCHANGED <<portfolioRows, headerStats, assigns>>
       ELSE LET rows == parseCSV(fetchText(o, portfolioLog))
            IN  /\ portfolioRows' = rows
                /\ assigns' = [assigns EXCEPT ![i].portfolio = @ + 1]
                /\ headerStats' = updateHeaderStatsOverall(headerStats, rows)
                /\ Settle(i, "stats", "done")
    /\ UNCHANGED <<portfolioLog, historyLog, portfolioChart, historyRows, currentFilter,
                   badge, lastRunEl, tableRows, resetListener, fetches, lastCall>>

LoadHistory(i, o) ==
    /\ TaskReady
    /\ loaders[i].history = "pending"
    /\ IF o = "reject"
       THEN Settle(i, "history", "rejected") /\ UNCHANGED <<historyRows, assigns>>
       ELSE /\ historyRows' = parseCSV(fetchText(o, historyLog))
            /\ assigns' = [assigns EXCEPT ![i].history = @ + 1]
            /\ Settle(i, "history", "done")
    /\ UNCHANGED <<portfolioLog, historyLog, portfolioChart, portfolioRows, currentFilter,
                   headerStats, badge, lastRunEl, tableRows, resetListener, fetches, lastCall>>

\* init() resumes after Promise.all: loadPortfolioChart() renders, then
\* loadPositionsTable() issues its fetch
LoadPortfolioChart(i) ==
    /\ pc[i] = "resume"
    /\ portfolioChart' = renderOrUpdateChart(computeSeriesAll(portfolioRows), "Total")
    /\ fetches' = [fetches EXCEPT ![i].history = @ + 1]
    /\ pc' = [pc EXCEPT ![i] = "table"]
    /\ UNCHANGED <<portfolioLog, historyLog, portfolioRows, historyRows, currentFilter,
                   headerStats, badge, lastRunEl, tableRows, resetListener, loaders,
                   assigns, lastCall>>

FirstToken(key) == IF key = <<>> THEN "" ELSE key[1]

\* the rows of the latest date, as the table shows them
TableOf(sorted) ==
    LET latestDate == Last(sorted).date
        todays == SelectSeq(sorted, LAMBDA r : r.date = latestDate)
    IN  [k \in DOMAIN todays |->
            [symbolKey |-> todays[k].symbolKey,
             contracts |-> todays[k].contracts,
             cost      |-> fmtUsd(parseFloat(todays[k].cost_per_contract)),
             price     |-> fmtUsd(parseFloat(todays[k].price)),
             value     |-> fmtUsd(parseFloat(todays[k].value)),
             pnl       |-> fmtUsd(parseFloat(todays[k].pnl)),
             pnlClass  |-> IF Ge0(parseFloat(todays[k].pnl)) THEN "good" ELSE "bad",
             pnlPct    |-> LET pnlPct == parseFloat(todays[k].pnl_pct)
                           IN  IF isFinite(pnlPct) THEN [kind |-> "pct", n |-> pnlPct[1] * 100]
                               ELSE Dash,
             pctClass  |-> IF Ge0(parseFloat(todays[k].pnl_pct)) THEN "good" ELSE "bad"]]

\* the fetch of loadPositionsTable() has settled
LoadPositionsTable(i, o) ==
    /\ TaskReady
    /\ pc[i] = "table"
    /\ IF o = "reject"
       THEN /\ pc' = [pc EXCEPT ![i] = "failed"]
            /\ UNCHANGED <<historyRows, assigns, tableRows, resetListener>>
       ELSE LET rows == parseCSV(fetchText(o, historyLog))
            IN  /\ assigns' = [assigns EXCEPT ![i].history = @ + 1]
                /\ pc' = [pc EXCEPT ![i] = "done"]
                /\ IF Len(rows) = 0
                   THEN /\ historyRows' = rows
                        /\ UNCHANGED <<tableRows, resetListener>>
                   ELSE /\ historyRows' = sortByDateAsc(rows)
                        /\ tableRows' = TableOf(sortByDateAsc(rows))
                        /\ resetListener' = TRUE
    /\ UNCHANGED <<portfolioLog, historyLog, portfolioChart, portfolioRows, currentFilter,
                   headerStats, badge, lastRunEl, loaders, fetches, lastCall>>

\* click on row k of the table
ClickRow(k) ==
    /\ TaskReady
    /\ k \in DOMAIN tableRows
    /\ LET underlying == FirstToken(tableRows[k].symbolKey)
       IN  /\ underlying # ""
           /\ ApplyFilter(underlying)

\* double click on the table or on the canvas
DblClick ==
    /\ TaskReady
    /\ resetListener
    /\ ResetFilter

\* the state the script leaves when it has run to its end: both init() calls have
\* issued their three fetches and wait for them
Init ==
    /\ portfolioLog \in StartupPortfolioTexts
    /\ historyLog \in StartupHistoryTexts
    /\ portfolioChart = NoChart
    /\ portfolioRows = <<>>
    /\ historyRows = <<>>
    /\ currentFilter = NoFilter
    /\ headerStats = InitialHeaderStats
    /\ badge = ""
    /\ lastRunEl = ""
    /\ tableRows = <<>>
    /\ resetListener = FALSE
    /\ pc = [i \in Inits |-> "join"]
    /\ loaders = [i \in Inits |->
                    [lastRun |-> "pending", stats |-> "pending", history |-> "pending"]]
    /\ fetches = [i \in Inits |-> [portfolio |-> 1, history |-> 1]]
    /\ assigns = [i \in Inits |-> [portfolio |-> 0, history |-> 0]]
    /\ lastCall = NoCall

Next ==
    \/ \E i \in Inits, o \in Outcomes : LoadLastRun(i, o)
    \/ \E i \in Inits, o \in Outcomes : LoadStats(i, o)
    \/ \E i \in Inits, o \in Outcomes : LoadHistory(i, o)
    \/ \E i \in Inits : LoadPortfolioChart(i)
    \/ \E i \in Inits, o \in Outcomes : LoadPositionsTable(i, o)
    \/ \E k \in DOMAIN tableRows : ClickRow(k)
    \/ DblClick

Spec == Init /\ [][Next]_vars

(***************************************************************************)
(* The loaded page: the first init() has finished, the second has passed   *)
(* its join (loadHistory has assigned the rows as parsed, the chart is     *)
(* rendered) and waits for the fetch of loadPositionsTable().  The filter  *)
(* transitions are explored from there as calls with any underlying.       *)
(***************************************************************************)
Loaded ==
    /\ portfolioRows = parseCSV(portfolioLog)
    /\ historyRows = parseCSV(historyLog)
    /\ portfolioChart = renderOrUpdateChart(computeSeriesAll(portfolioRows), "Total")
    /\ headerStats = updateHeaderStatsOverall(InitialHeaderStats, portfolioRows)
    /\ currentFilter = NoFilter
    /\ badge = ""
    /\ lastRunEl = "Last update: <date>"
    /\ tableRows = IF Len(historyRows) = 0 THEN <<>> ELSE TableOf(sortByDateAsc(historyRows))
    /\ resetListener = (Len(historyRows) # 0)
    /\ pc = [i \in Inits |-> IF i = 1 THEN "done" ELSE "table"]
    /\ loaders = [i \in Inits |-> [lastRun |-> "done", stats |-> "done", history |-> "done"]]
    /\ fetches = [i \in Inits |-> [portfolio |-> 1, history |-> 2]]
    /\ assigns = [i \in Inits |-> [portfolio |-> 1, history |-> IF i = 1 THEN 2 ELSE 1]]
    /\ lastCall = NoCall

InitUnderlying ==
    /\ portfolioLog \in StartupPortfolioTexts
    /\ historyLog \in HistoryTexts
    /\ Loaded

InitAll ==
    /\ portfolioLog \in PortfolioTexts
    /\ historyLog \in StartupHistoryTexts
    /\ Loaded

NextView ==
    \/ \E u \in Underlyings : ApplyFilter(u)
    \/ ResetFilter

SpecUnderlying == InitUnderlying /\ [][NextView]_vars
SpecAll == InitAll /\ [][NextView]_vars

\* the loaded page with both logs served, a state the startup reaches
LoadedWithRows == Loaded /\ Len(historyRows) = 2 /\ Len(portfolioRows) = 2

(***************************************************************************)
(* Claims                                                                  *)
(***************************************************************************)
AllInitsDone == \A i \in Inits : pc[i] = "done"

\* C1: once the page load has completed, the filter is the argument of the last
\* filter call (null after resetFilter or with no call) and the chart on display is
\* the one of the current filter: computeSeriesUnderlying(u) labelled u, or
\* computeSeriesAll() labelled "Total".
C1_ChartIsTheFiltersChart ==
    AllInitsDone =>
        /\ currentFilter = (IF lastCall.op = "applyFilter" THEN lastCall.arg ELSE NoFilter)
        /\ portfolioChart.label = (IF currentFilter = NoFilter THEN "Total" ELSE currentFilter)

\* C2: after applyFilter(u), when u has a matching row, the header stats are those
\* of the last point of computeSeriesUnderlying(u): its value, its pnl, and its
\* pnl/cost*100 (0 when the cost is not positive).
C2_StatsOfLastPoint ==
    lastCall.op = "applyFilter" =>
        LET s == computeSeriesUnderlying(historyRows, lastCall.arg)
        IN  Len(s.labels) > 0 =>
                /\ headerStats.value = fmtUsd(Last(s.value))
                /\ headerStats.pnl = fmtUsd(Last(s.pnl))
                /\ headerStats.pct = [kind |-> "pct", n |-> Last(s.pct)[1]]

BackingSeries ==
    IF currentFilter = NoFilter THEN computeSeriesAll(portfolioRows)
    ELSE computeSeriesUnderlying(historyRows, currentFilter)

\* C3: after a filter transition whose backing series is empty, the header stats
\* show zero value, zero P&L and the placeholder percent.
\* (stats no script has written yet are taken to be the markup's placeholders)
C3_EmptySeriesZeroStats ==
    (lastCall.op # "none" /\ Len(BackingSeries.labels) = 0) =>
        \/ headerStats = InitialHeaderStats
        \/ /\ headerStats.value = [kind |-> "usd", n |-> 0]
           /\ headerStats.pnl = [kind |-> "usd", n |-> 0]
           /\ headerStats.pct = Dash

\* contribution of position row i to the value and to the cost of its date
ValueAt(i) ==
    LET v == parseFloat(historyRows[i].value) IN IF v = NaN THEN 0 ELSE v[1]
CostAt(i) ==
    LET c == parseFloat(historyRows[i].cost_per_contract)
        n == parseInt(historyRows[i].contracts)
    IN  IF c = NaN \/ n = NaN THEN 0 ELSE c[1] * n[1] * 100

RECURSIVE SumValue(_)
SumValue(I) == IF I = {} THEN 0
               ELSE LET i == CHOOSE x \in I : TRUE IN ValueAt(i) + SumValue(I \ {i})
RECURSIVE SumCost(_)
SumCost(I) == IF I = {} THEN 0
              ELSE LET i == CHOOSE x \in I : TRUE IN CostAt(i) + SumCost(I \ {i})

\* C4: the series applyFilter(u) renders has exactly one point per distinct date of
\* the rows whose underlying is u, in ascending date order; a point's value is the
\* sum of value over the matching rows of its date, its cost the sum of
\* cost_per_contract*contracts*100 over them (an unparsable field counts 0),
\* pnl = value - cost, pct = pnl/cost*100 when cost > 0 and 0 otherwise; with no
\* matching row the series is empty.
C4_UnderlyingSeries ==
    lastCall.op = "applyFilter" =>
        LET u == lastCall.arg
            s == portfolioChart.series
            M == {i \in DOMAIN historyRows : historyRows[i].underlying = u}
            D == {historyRows[i].date : i \in M}
            At(d) == {i \in M : historyRows[i].date = d}
        IN  /\ Len(s.labels) = Cardinality(D)
            /\ Range(s.labels) = D
            /\ Len(s.value) = Len(s.labels)
            /\ Len(s.pnl) = Len(s.labels)
            /\ Len(s.pct) = Len(s.labels)
            /\ \A k \in 1..(Len(s.labels) - 1) : s.labels[k] < s.labels[k + 1]
            /\ \A k \in DOMAIN s.labels :
                   LET v == SumValue(At(s.labels[k]))
                       c == SumCost(At(s.labels[k]))
                   IN  /\ s.value[k] = <<v>>
                       /\ s.pnl[k] = <<v - c>>
                       /\ s.pct[k] = <<IF c > 0 THEN ((v - c) * 10000) \div c ELSE 0>>
            /\ (M = {} => s = EmptySeries)

\* two AAPL rows of one date (1000 at 5 x 2, 500 at 5 x 1) rendered as the single
\* point value 1500, pnl 0, pct 0
C4_Witness ==
    /\ lastCall = [op |-> "applyFilter", arg |-> "AAPL"]
    /\ Len(historyRows) = 2
    /\ historyRows[1].underlying = "AAPL" /\ historyRows[2].underlying = "AAPL"
    /\ historyRows[1].date = historyRows[2].date
    /\ historyRows[1].value = "1000" /\ historyRows[1].contracts = "2"
    /\ historyRows[2].value = "500" /\ historyRows[2].contracts = "1"
    /\ portfolioChart.series.value = << <<1500>> >>
    /\ portfolioChart.series.pnl = << <<0>> >>

\* the point a portfolio row is to give
PointOfRow(r) ==
    LET c == parseFloat(r.total_cost_basis)
        p == parseFloat(r.total_pnl)
    IN  [date  |-> r.date,
         value |-> parseFloat(r.total_value),
         pnl   |-> p,
         pct   |-> IF c # NaN /\ c[1] > 0
                   THEN (IF p = NaN THEN NaN ELSE <<(p[1] * 10000) \div c[1]>>)
                   ELSE <<0>>]

PointAt(s, k) == [date |-> s.labels[k], value |-> s.value[k], pnl |-> s.pnl[k],
                  pct |-> s.pct[k]]

\* C5: the series resetFilter() renders has one point per portfolio row, ascending
\* by date; each point carries its row's date, total_value and total_pnl, and
\* total_pnl/total_cost_basis*100 when total_cost_basis > 0, exactly 0 otherwise.
C5_AllSeries ==
    lastCall.op = "resetFilter" =>
        LET s == portfolioChart.series
            n == Len(portfolioRows)
        IN  /\ Len(s.labels) = n /\ Len(s.value) = n /\ Len(s.pnl) = n /\ Len(s.pct) = n
            /\ \A k \in 1..(n - 1) : s.labels[k] <= s.labels[k + 1]
            /\ \A k \in 1..n :
                   Cardinality({j \in 1..n : PointAt(s, j) = PointAt(s, k)})
                     = Cardinality({i \in 1..n : PointOfRow(portfolioRows[i]) = PointAt(s, k)})
            /\ \A k \in 1..n : \A i \in 1..n :
                   (PointOfRow(portfolioRows[i]) = PointAt(s, k)
                      /\ ~Gt0(parseFloat(portfolioRows[i].total_cost_basis)))
                   => s.pct[k] = <<0>>

\* two rows out of date order, one with a negative and one with a positive cost basis
C5_Witness ==
    /\ lastCall.op = "resetFilter"
    /\ Len(portfolioRows) = 2
    /\ portfolioRows[1].date > portfolioRows[2].date
    /\ portfolioRows[1].total_cost_basis = "-50"
    /\ portfolioRows[2].total_cost_basis = "1100"
    /\ portfolioChart.series.labels = <<portfolioRows[2].date, portfolioRows[1].date>>
    /\ portfolioChart.series.pct[2] = <<0>>
    /\ portfolioChart.series.pct[1] # <<0>>

\* C6: applyFilter(X) called again right after applyFilter(X) leaves the filter, the
\* chart (series and label), the header stats and the badge as the first call left them.
C6_ApplyFilterIdempotent ==
    lastCall.op = "applyFilter" => applyFilter(View, lastCall.arg) = View

\* applyFilter(X) has rendered a series with a point and stats that are not zero
C6_Witness ==
    /\ lastCall.op = "applyFilter"
    /\ currentFilter = lastCall.arg
    /\ Len(portfolioChart.series.labels) > 0
    /\ headerStats.value.kind = "usd" /\ headerStats.value.n > 0
    /\ headerStats.pct.kind = "pct" /\ headerStats.pct.n # 0

\* C7: no outcome of a log fetch makes an init() fail: a startup whose last-run
\* fetch has not failed never rejects.
C7_StartupNeverFails ==
    \A i \in Inits : loaders[i].lastRun # "rejected" => pc[i] # "failed"

Rendered ==
    \/ headerStats # InitialHeaderStats
    \/ portfolioChart # NoChart
    \/ tableRows # <<>>

\* C8: nothing derived from the logs (header stats, chart, table) is on display
\* before a portfolio-log fetch and a position-log fetch have both completed.
C8_NoRenderBeforeBothFetches ==
    Rendered => /\ \E i \in Inits : loaders[i].stats # "pending"
                /\ \E i \in Inits : loaders[i].history # "pending"

\* C9: no load step re-renders the whole-portfolio chart after a filter transition
\* has set the view: the filter never reads u while the chart shows "Total".
C9_NoTotalChartUnderFilter ==
    currentFilter # NoFilter => portfolioChart.label # "Total"

\* C10: a startup fetches each log once and assigns each row set once.
C10_RowsLoadedOnce ==
    \A i \in Inits : /\ fetches[i].portfolio <= 1 /\ fetches[i].history <= 1
                     /\ assigns[i].portfolio <= 1 /\ assigns[i].history <= 1

====
